---- MODULE Spec2Model ----
(***************************************************************************)
(* Model of the Ollama discovery / cache-fallback resolver                 *)
(* (src/agents/models-config.providers.ts) and of the async concurrency    *)
(* limiter it runs its /api/show probes through (src/utils/limit.ts).      *)
(*                                                                         *)
(* The specifications share the variables:                                 *)
(*   SpecLimit      a limiter driven by an arbitrary client                *)
(*   SpecLimitFair  the same, every started task settling                  *)
(*   SpecCreate     limit(max) for any max, then the client                *)
(*   SpecShow       queryOllamaContextWindow on every /api/show answer     *)
(*   SpecUrl        buildOllamaProvider on every short base URL            *)
(*   SpecName       the model descriptor of every short model name         *)
(*   Spec           one resolveImplicitProviders call, discovery included  *)
(*   SpecTwo        two consecutive resolveImplicitProviders calls         *)
(*   SpecProbe      one call without key, every way a probe can fail       *)
(***************************************************************************)
EXTENDS Integers, Sequences, FiniteSets, TLC

\* ------------------------------------------------------------------ bounds
MaxLimit == 2      \* largest `max` a client hands to limit()
MaxTasks == 4      \* number of tasks a client submits to one limiter
MaxInfo  == 2      \* most entries of a model_info object
TwoCallTags == 2   \* longest tag list answered when two calls are modelled
MaxUrlLen == 6     \* longest configured base URL, in characters
MaxNameLen == 3    \* longest model name drawn from the short alphabet
FairTasks == 3     \* number of tasks submitted where progress is checked
\* The two inspection constants come from ./ollama-stream.js, which is not
\* part of the sources; the model runs them at small positive values.
OLLAMA_SHOW_MAX_MODELS  == 3
OLLAMA_SHOW_CONCURRENCY == 2

OLLAMA_DEFAULT_CONTEXT_WINDOW == 128000
OLLAMA_DEFAULT_MAX_TOKENS == 8192

Max2(a, b) == IF a > b THEN a ELSE b
Min2(a, b) == IF a < b THEN a ELSE b
Range(s) == {s[k] : k \in 1..Len(s)}

\* one more listed model than the inspection cap, so that the cap bites
MaxTags == OLLAMA_SHOW_MAX_MODELS + 1
TaskIds == 1..Max2(MaxTasks, OLLAMA_SHOW_MAX_MODELS)

VARIABLES
  \* ---- limiter closure (limit.ts) and the promises it handed out
  max,          \* the limit
  queue,        \* queue: tasks waiting, oldest first
  active,       \* active: counter of running tasks
  status,       \* per task: "new" | "queued" | "running" | "settled" | "done"
  outcome,      \* per task: what fn() settled with
  promise,      \* per task: the promise returned to the submitter
  submitOrder,  \* history: tasks in the order they were submitted
  startOrder,   \* history: tasks in the order fn() was called
  \* ---- resolveImplicitProviders / discoverOllamaModels
  pc,           \* "idle" | "tags" | "batch" | "decide" | "done"
  cacheFile,    \* content of .openclaw_model_cache.json
  ollamaKey,    \* resolved API key (optional)
  cfgUrl,       \* explicitProviders.ollama.baseUrl (optional)
  testEnv,      \* VITEST / NODE_ENV=test
  tagsOutcome,  \* how the /api/tags request of this call ended
  tagList,      \* data.models of the /api/tags answer (names)
  toInspect,    \* toInspect
  bi,           \* loop variable i of the batch loop
  discovered,   \* discovered
  probes,       \* history: names of the /api/show requests issued, in order
  models,       \* what discoverOllamaModels returned
  ret,          \* what resolveImplicitProviders returned (or that it threw)
  cacheRead,    \* history: loadModelCache was called in this call
  wrote,        \* history: writeFileSync succeeded in this call
  prev,         \* history: summary of the previous call
  callsLeft,    \* calls the client still makes
  tagBound,     \* longest tag list the backend answers with
  probeAnswers, \* the /api/show answers the backend gives
  cacheStart,   \* history: content of the cache file when this call began
  answer,       \* history: per tracked task, the /api/show answer its probe got
  outOfOrder,   \* history: a tracked probe was answered before an earlier-listed one
  \* ---- queryOllamaContextWindow on its own
  showResp,     \* an /api/show answer
  showCtx,      \* what queryOllamaContextWindow made of it
  \* ---- resolveOllamaApiBase and the reasoning flag on their own
  configuredBaseUrl,  \* configuredBaseUrl (optional string)
  apiBase,            \* what resolveOllamaApiBase made of it
  tagName,            \* model.name of a listed model
  definition          \* the descriptor built for it

limVars == <<max, queue, active, status, outcome, promise, submitOrder, startOrder>>
resVars == <<pc, cacheFile, ollamaKey, cfgUrl, testEnv, tagsOutcome, tagList,
             toInspect, bi, discovered, probes, models, ret, cacheRead, wrote,
             prev, callsLeft, tagBound, probeAnswers, cacheStart, answer, outOfOrder>>
showVars == <<showResp, showCtx>>
pureVars == <<configuredBaseUrl, apiBase, tagName, definition>>
vars == <<limVars, resVars, showVars, pureVars>>

\* ---------------------------------------------------------------- optionals
None == [some |-> FALSE]
Some(v) == [some |-> TRUE, v |-> v]

\* ======================================= models-config.providers.ts, helpers
\* Strings the code takes apart are sequences of characters.
OLLAMA_API_BASE_URL == <<"d">>     \* from ./ollama-stream.js
OLLAMA_DEFAULT_COST == [input |-> 0, output |-> 0, cacheRead |-> 0, cacheWrite |-> 0]

\* line 28: replace(/\/+$/, "")
RECURSIVE stripSlashes(_)
stripSlashes(s) ==
  IF s # <<>> /\ s[Len(s)] = "/" THEN stripSlashes(SubSeq(s, 1, Len(s) - 1)) ELSE s

\* line 29: replace(/\/v1$/i, "")
stripV1_caseSensitive(s) ==
  IF Len(s) >= 3 /\ s[Len(s) - 2] = "/" /\ s[Len(s) - 1] = "v" /\ s[Len(s)] = "1"
    THEN SubSeq(s, 1, Len(s) - 3)
    ELSE s

stripV1(s) ==
  IF Len(s) >= 3 /\ s[Len(s) - 2] = "/" /\ s[Len(s) - 1] \in {"v", "V"} /\ s[Len(s)] = "1"
    THEN SubSeq(s, 1, Len(s) - 3)
    ELSE s

\* lines 26-30; the argument is an optional string
resolveOllamaApiBase(u) ==
  IF ~u.some \/ u.v = <<>> THEN OLLAMA_API_BASE_URL ELSE stripV1(stripSlashes(u.v))

\* ---- /api/show answers
\* A number is held as its double: Num(h) is h/2.
Num(h) == [t |-> "num", h |-> h]
NumHalves == {-3, 0, 1, 2, 5, 8}
InfoValues == {Num(h) : h \in NumHalves} \cup {[t |-> "nan"], [t |-> "inf"], [t |-> "str"]}
\* keys as dot-separated tokens
InfoKeys == { <<"llama", ".", "context_length">>,
              <<"qwen", ".", "context_length">>,
              <<"context_length">>,
              <<"llama", ".", "context_length", ".", "max">>,
              <<"general", ".", "architecture">> }
InfoEntries == [key : InfoKeys, val : InfoValues]
\* an object: entries in iteration order, keys distinct
ModelInfos ==
  UNION { { s \in [1..n -> InfoEntries] :
              \A a, b \in 1..n : a # b => s[a].key # s[b].key } : n \in 0..MaxInfo }
ShowFailures == { [kind |-> "neterr"], [kind |-> "notok"], [kind |-> "badjson"],
                  [kind |-> "ok", info |-> None] }
ShowResponses == ShowFailures \cup { [kind |-> "ok", info |-> Some(mi)] : mi \in ModelInfos }

\* line 74: key.endsWith(".context_length")
endsWithContextLength(key) ==
  Len(key) >= 2 /\ key[Len(key) - 1] = "." /\ key[Len(key)] = "context_length"

\* line 74: typeof value === "number" && Number.isFinite(value)
isFiniteNumber(v) == v.t = "num"

\* line 75: Math.floor(value)
floor(v) == IF v.h >= 0 THEN v.h \div 2 ELSE -((1 - v.h) \div 2)

\* lines 73-79: the scan of Object.entries(model_info)
RECURSIVE scanInfo_lastWins(_)
scanInfo_lastWins(es) ==
  IF es = <<>> THEN None
  ELSE LET e == es[Len(es)] IN
       IF endsWithContextLength(e.key) /\ isFiniteNumber(e.val) /\ floor(e.val) > 0
         THEN Some(floor(e.val))
         ELSE scanInfo_lastWins(SubSeq(es, 1, Len(es) - 1))

RECURSIVE scanInfo(_)
scanInfo(es) ==
  IF es = <<>> THEN None
  ELSE LET e == Head(es) IN
       IF endsWithContextLength(e.key) /\ isFiniteNumber(e.val) /\ floor(e.val) > 0
         THEN Some(floor(e.val))
         ELSE scanInfo(Tail(es))

\* lines 58-83: the context window an /api/show answer gives, if any
queryOllamaContextWindow_lastWins(r) ==
  IF r.kind # "ok" \/ ~r.info.some THEN None ELSE scanInfo_lastWins(r.info.v)

queryOllamaContextWindow(r) ==
  IF r.kind # "ok" \/ ~r.info.some THEN None ELSE scanInfo(r.info.v)

\* ---- model descriptors
toLowerCase(s) ==
  [k \in 1..Len(s) |->
     CASE s[k] = "R" -> "r" [] s[k] = "E" -> "e" [] s[k] = "A" -> "a"
       [] s[k] = "S" -> "s" [] s[k] = "O" -> "o" [] s[k] = "N" -> "n"
       [] s[k] = "I" -> "i" [] s[k] = "G" -> "g" [] s[k] = "L" -> "l"
       [] OTHER -> s[k]]

includes(s, sub) ==
  \E k \in 0..(Len(s) - Len(sub)) : SubSeq(s, k + 1, k + Len(sub)) = sub

\* lines 129-130
isReasoning_caseSensitive(modelId) ==
  \/ includes(modelId, <<"r", "1">>)
  \/ includes(modelId, <<"r", "e", "a", "s", "o", "n", "i", "n", "g">>)

isReasoning(modelId) ==
  \/ includes(toLowerCase(modelId), <<"r", "1">>)
  \/ includes(toLowerCase(modelId), <<"r", "e", "a", "s", "o", "n", "i", "n", "g">>)

\* lines 131-139; ctx is queryOllamaContextWindow's answer
modelDefinition_noDefault(modelId, ctx) ==
  [ id |-> modelId,
    name |-> modelId,
    reasoning |-> isReasoning(modelId),
    input |-> <<"text">>,
    cost |-> OLLAMA_DEFAULT_COST,
    contextWindow |-> IF ctx.some THEN ctx.v ELSE 0,
    maxTokens |-> OLLAMA_DEFAULT_MAX_TOKENS ]

modelDefinition(modelId, ctx) ==
  [ id |-> modelId,
    name |-> modelId,
    reasoning |-> isReasoning(modelId),
    input |-> <<"text">>,
    cost |-> OLLAMA_DEFAULT_COST,
    contextWindow |-> IF ctx.some THEN ctx.v ELSE OLLAMA_DEFAULT_CONTEXT_WINDOW,
    maxTokens |-> OLLAMA_DEFAULT_MAX_TOKENS ]

\* ============================================================== limit.ts
NoOutcome == [kind |-> "none"]
NoAnswer == [kind |-> "none"]
Pending == [state |-> "pending"]

\* next(), lines 15-20, on the closure's queue and counter; `run` holds the
\* task it called, if any.
next_offByOne(q, a, m) ==
  IF a > m \/ Len(q) = 0
    THEN [queue |-> q, active |-> a, run |-> <<>>]
    ELSE [queue |-> Tail(q), active |-> a + 1, run |-> <<Head(q)>>]

next_lazy(q, a, m) ==
  IF a + 1 >= m \/ Len(q) = 0
    THEN [queue |-> q, active |-> a, run |-> <<>>]
    ELSE [queue |-> Tail(q), active |-> a + 1, run |-> <<Head(q)>>]

next_lifo(q, a, m) ==
  IF a >= m \/ Len(q) = 0
    THEN [queue |-> q, active |-> a, run |-> <<>>]
    ELSE [queue |-> SubSeq(q, 1, Len(q) - 1), active |-> a + 1, run |-> <<q[Len(q)]>>]

next(q, a, m) ==
  IF a >= m \/ Len(q) = 0
    THEN [queue |-> q, active |-> a, run |-> <<>>]
    ELSE [queue |-> Tail(q), active |-> a + 1, run |-> <<Head(q)>>]

\* the returned function called once per element of ts, synchronously
\* (lines 22-37: queue.push(task); next())
RECURSIVE submitAll(_, _, _, _)
submitAll(q, a, m, ts) ==
  IF ts = <<>>
    THEN [queue |-> q, active |-> a, run |-> <<>>]
    ELSE LET n == next(Append(q, Head(ts)), a, m)
             r == submitAll(n.queue, n.active, m, Tail(ts))
         IN  [queue |-> r.queue, active |-> r.active, run |-> n.run \o r.run]

\* lines 25-29: resolve(result) / reject(e) on the submitter's promise
settle(p, t, o) ==
  IF o.kind = "ok"
    THEN [p EXCEPT ![t] = [state |-> "fulfilled", val |-> o.val]]
    ELSE [p EXCEPT ![t] = [state |-> "rejected", val |-> o.val]]

\* lines 30-31: finally { active-- }
release_onSuccessOnly(a, o) == IF o.kind = "ok" THEN a - 1 ELSE a

release(a, o) == a - 1

\* names of the probes the tasks of `run` issue as they start (line 128);
\* only discovery's tasks issue probes
probesOf(run) ==
  IF pc = "batch" THEN [k \in 1..Len(run) |-> toInspect[run[k]]] ELSE <<>>

\* A client calls the limited function with a new task (lines 22-37).
Submit(t) ==
  /\ pc = "client"
  /\ status[t] = "new"
  /\ LET n == submitAll(queue, active, max, <<t>>) IN
       /\ queue' = n.queue
       /\ active' = n.active
       /\ status' = [u \in TaskIds |->
                       IF u \in Range(n.run) THEN "running"
                       ELSE IF u = t THEN "queued" ELSE status[u]]
       /\ startOrder' = startOrder \o n.run
  /\ submitOrder' = Append(submitOrder, t)
  /\ UNCHANGED <<max, outcome, promise, resVars, showVars, pureVars>>

\* The promise fn() returned settles, with a result or with an error
\* (line 26, the awaited promise).
Settle(t, k) ==
  /\ pc = "client"
  /\ status[t] = "running"
  /\ status' = [status EXCEPT ![t] = "settled"]
  /\ outcome' = [outcome EXCEPT ![t] = [kind |-> k, val |-> t]]
  /\ UNCHANGED <<max, queue, active, promise, submitOrder, startOrder, resVars, showVars, pureVars>>

\* The task resumes after its await (lines 27-33): settle the submitter's
\* promise, then finally { active--; next() }.
Continue(t) ==
  /\ status[t] = "settled"
  /\ promise' = settle(promise, t, outcome[t])
  /\ LET n == next(queue, release(active, outcome[t]), max) IN
       /\ queue' = n.queue
       /\ active' = n.active
       /\ status' = [u \in TaskIds |->
                       IF u = t THEN "done"
                       ELSE IF u \in Range(n.run) THEN "running" ELSE status[u]]
       /\ startOrder' = startOrder \o n.run
       /\ probes' = probes \o probesOf(n.run)
  /\ UNCHANGED <<max, outcome, submitOrder, showVars, pureVars>>
  /\ UNCHANGED <<pc, cacheFile, ollamaKey, cfgUrl, testEnv, tagsOutcome, tagList,
                 toInspect, bi, discovered, models, ret, cacheRead, wrote, prev,
                 callsLeft, tagBound, probeAnswers, cacheStart, answer, outOfOrder>>

\* limit(max), lines 10-13: a fresh closure
FreshLimiter(m) ==
  /\ max = m
  /\ queue = <<>>
  /\ active = 0
  /\ status = [t \in TaskIds |-> "new"]
  /\ outcome = [t \in TaskIds |-> NoOutcome]
  /\ promise = [t \in TaskIds |-> Pending]
  /\ submitOrder = <<>>
  /\ startOrder = <<>>

ResolverOff ==
  /\ cacheFile = [kind |-> "missing"]
  /\ ollamaKey = None
  /\ cfgUrl = None
  /\ testEnv = FALSE
  /\ tagsOutcome = "none"
  /\ tagList = <<>>
  /\ toInspect = <<>>
  /\ bi = 0
  /\ discovered = <<>>
  /\ probes = <<>>
  /\ models = <<>>
  /\ ret = [kind |-> "none"]
  /\ cacheRead = FALSE
  /\ wrote = FALSE
  /\ prev = [kind |-> "none"]
  /\ callsLeft = 0
  /\ tagBound = 0
  /\ probeAnswers = {}
  /\ answer = <<>>
  /\ outOfOrder = FALSE
  /\ cacheStart = [kind |-> "missing"]

ShowOff ==
  /\ showResp = [kind |-> "none"]
  /\ showCtx = None

PureOff ==
  /\ configuredBaseUrl = None
  /\ apiBase = <<>>
  /\ tagName = <<>>
  /\ definition = None

InitLimit ==
  /\ \E m \in 1..MaxLimit : FreshLimiter(m)
  /\ pc = "client"
  /\ ResolverOff
  /\ ShowOff
  /\ PureOff

NextLimit ==
  \/ \E t \in 1..MaxTasks : Submit(t)
  \/ \E t \in 1..MaxTasks : \E k \in {"ok", "fail"} : Settle(t, k)
  \/ \E t \in 1..MaxTasks : Continue(t)

SpecLimit == InitLimit /\ [][NextLimit]_vars

\* The same client under the assumption that every started task settles
\* (the promise fn() returned settles, line 26) and with the job queue of
\* the runtime resuming every task whose await has settled (lines 27-33).
\* Nothing obliges the client to submit.
FairLimit ==
  \A t \in 1..FairTasks :
    /\ WF_vars(\E k \in {"ok", "fail"} : Settle(t, k))
    /\ WF_vars(Continue(t))

NextLimitFair ==
  \/ \E t \in 1..FairTasks : Submit(t)
  \/ \E t \in 1..FairTasks : \E k \in {"ok", "fail"} : Settle(t, k)
  \/ \E t \in 1..FairTasks : Continue(t)

SpecLimitFair == InitLimit /\ [][NextLimitFair]_vars /\ FairLimit

\* ---- construction included: limit(max) with any integer from -1 up
\* line 11: if (max < 1) throw
limitThrows_negativeOnly(m) == m < 0

limitThrows(m) == m < 1

\* limit(m), lines 10-13 and 22: it throws, or returns the limited function
Limit(m) ==
  /\ pc = "start"
  /\ max' = m
  /\ pc' = IF limitThrows(m) THEN "threw" ELSE "client"
  /\ UNCHANGED <<queue, active, status, outcome, promise, submitOrder, startOrder,
                 showVars, pureVars>>
  /\ UNCHANGED <<cacheFile, ollamaKey, cfgUrl, testEnv, tagsOutcome, tagList,
                 toInspect, bi, discovered, probes, models, ret, cacheRead, wrote,
                 prev, callsLeft, tagBound, probeAnswers, cacheStart, answer, outOfOrder>>

InitCreate ==
  /\ FreshLimiter(0)
  /\ pc = "start"
  /\ ResolverOff
  /\ ShowOff
  /\ PureOff

NextCreate ==
  \/ \E m \in (-1)..MaxLimit : Limit(m)
  \/ NextLimit

SpecCreate == InitCreate /\ [][NextCreate]_vars

\* ================================================ queryOllamaContextWindow
\* Every /api/show answer, and what lines 58-83 make of it.
InitShow ==
  /\ FreshLimiter(0)
  /\ pc = "show"
  /\ ResolverOff
  /\ showResp \in ShowResponses
  /\ showCtx = None
  /\ PureOff

\* one call of the task body of lines 126-140 for a model named "m"
ApplyShow ==
  /\ pc = "show"
  /\ pc' = "shown"
  /\ showCtx' = Some(modelDefinition(<<"m">>, queryOllamaContextWindow(showResp)))
  /\ UNCHANGED <<limVars, showResp, pureVars>>
  /\ UNCHANGED <<cacheFile, ollamaKey, cfgUrl, testEnv, tagsOutcome, tagList,
                 toInspect, bi, discovered, probes, models, ret, cacheRead, wrote,
                 prev, callsLeft, tagBound, probeAnswers, cacheStart, answer, outOfOrder>>

NextShow == ApplyShow

SpecShow == InitShow /\ [][NextShow]_vars

\* ===================================================== the model cache file
\* The file is missing, or holds text; text is either no JSON at all or the
\* JSON value it parses to.  JSON.stringify followed by JSON.parse gives back
\* every value the resolver writes (strings, integers, booleans, arrays and
\* objects of them; no field is undefined), so a written value is held as is.
Missing == [kind |-> "missing"]
Garbage == [kind |-> "text", json |-> None]
JsonText(v) == [kind |-> "text", json |-> Some(v)]
JsonNull == [t |-> "null"]
JsonScalar == [t |-> "scalar"]           \* a number, a string, true, an array
JsonObject(o) == [t |-> "object", ollama |-> o]  \* o: the optional `ollama` member

\* lines 37-44
loadModelCache(f) ==
  IF f.kind = "missing" THEN JsonObject(None)
  ELSE IF ~f.json.some THEN JsonObject(None)
  ELSE f.json.v

\* lines 45-49: the text writeFileSync is given
stringifyCache_providerOnly(entry) ==
  JsonText(JsonObject(Some([baseUrl |-> entry.baseUrl, api |-> entry.api,
                            models |-> entry.models])))

stringifyCache(entry) == JsonText(JsonObject(Some(entry)))

\* JS truthiness of the `ollama` member: a provider object is truthy, null is not
truthy(v) == IF "t" \in DOMAIN v THEN v.t # "null" ELSE TRUE

\* lines 160-164
buildOllamaProvider(u, ms) ==
  [baseUrl |-> resolveOllamaApiBase(u), api |-> "ollama", models |-> ms]

\* line 192: the key is absent or a non-empty string
acceptLive_always(ms, k) == TRUE

acceptLive(ms, k) == Len(ms) > 0 \/ k.some

\* lines 193-196
liveEntry_sentinelOnly(u, ms, k) ==
  [baseUrl |-> resolveOllamaApiBase(u), api |-> "ollama", models |-> ms,
   apiKey |-> "ollama-local"]

liveEntry(u, ms, k) ==
  LET p == buildOllamaProvider(u, ms) IN
  [baseUrl |-> p.baseUrl, api |-> p.api, models |-> p.models,
   apiKey |-> IF k.some THEN k.v ELSE "ollama-local"]

\* lines 201-202 and 205: what the call returns on the cache path
Returned(o) == [kind |-> "returned", ollama |-> o]
Threw == [kind |-> "threw"]

restoreFromCache_restamp(cached) ==
  IF cached.t = "null" THEN Threw
  ELSE IF cached.t = "object" /\ cached.ollama.some /\ truthy(cached.ollama.v)
    THEN Returned(Some([cached.ollama.v EXCEPT !.apiKey = "ollama-local"]))
  ELSE Returned(None)

restoreFromCache(cached) ==
  IF cached.t = "null" THEN Threw                 \* null.ollama: TypeError
  ELSE IF cached.t = "object" /\ cached.ollama.some /\ truthy(cached.ollama.v)
    THEN Returned(Some(cached.ollama.v))
  ELSE Returned(None)

\* line 112
inspectList_noCap(l) == l

inspectList(l) == SubSeq(l, 1, Min2(Len(l), OLLAMA_SHOW_MAX_MODELS))

\* ---- inputs
ModelNames == { <<"l", "3">>, <<"R", "1">> }
TagLists(n) == UNION { [1..k -> ModelNames] : k \in 0..n }
Keys == { None, Some("sk-1") }
Urls == { None, Some(<<"h", "/", "a", "/", "V", "1", "/">>) }
\* the /api/show answers the backend gives during discovery
ProbeResponses ==
  { [kind |-> "neterr"], [kind |-> "ok", info |-> None],
    [kind |-> "ok", info |-> Some(<< [key |-> <<"llama", ".", "context_length">>,
                                      val |-> Num(8)] >>)] }
\* with two calls modelled, every probe is answered with a context length
TwoCallResponses ==
  { [kind |-> "ok", info |-> Some(<< [key |-> <<"llama", ".", "context_length">>,
                                      val |-> Num(8)] >>)] }
\* an entry an earlier run of the program left in the file
OldModel == modelDefinition(<<"o">>, Some(2))
OldEntry == [baseUrl |-> <<"o">>, api |-> "ollama", models |-> <<OldModel>>,
             apiKey |-> "sk-0"]
CacheFiles == { Missing, Garbage, JsonText(JsonNull), JsonText(JsonScalar),
                JsonText(JsonObject(None)), JsonText(JsonObject(Some(JsonNull))),
                JsonText(JsonObject(Some(OldEntry))) }
\* the two that matter to a later call: no file, or a usable entry
TwoCallFiles == { Missing, JsonText(JsonObject(Some(OldEntry))) }

\* ================================================ resolveImplicitProviders
\* discoverOllamaModels returns: its limiter and the promises are garbage
DropLimiter ==
  /\ max' = 0
  /\ queue' = <<>>
  /\ active' = 0
  /\ status' = [t \in TaskIds |-> "new"]
  /\ outcome' = [t \in TaskIds |-> NoOutcome]
  /\ promise' = [t \in TaskIds |-> Pending]
  /\ submitOrder' = <<>>
  /\ startOrder' = <<>>

\* the i-th batch of lines 122-123, as task ids (= positions in toInspect)
batchIds_double(i, insp) ==
  [k \in 1..(Min2(i + 2 * OLLAMA_SHOW_CONCURRENCY, Len(insp)) - i) |-> i + k]

batchIds_reversed(i, insp) ==
  LET n == Min2(i + OLLAMA_SHOW_CONCURRENCY, Len(insp)) - i
  IN  [k \in 1..n |-> i + n + 1 - k]

batchIds(i, insp) ==
  [k \in 1..(Min2(i + OLLAMA_SHOW_CONCURRENCY, Len(insp)) - i) |-> i + k]

\* lines 172-190 and 94-100: the call starts; discovery is skipped under a
\* test runner, otherwise the /api/tags request goes out.
Resolve(k, u, te) ==
  /\ pc \in {"idle", "done"}
  /\ callsLeft > 0
  /\ callsLeft' = callsLeft - 1
  /\ prev' = IF pc = "done"
               THEN [kind |-> "call", ret |-> ret, models |-> models, wrote |-> wrote]
               ELSE prev
  /\ ollamaKey' = k
  /\ cfgUrl' = u
  /\ testEnv' = te
  /\ tagList' = <<>>
  /\ toInspect' = <<>>
  /\ bi' = 0
  /\ discovered' = <<>>
  /\ probes' = <<>>
  /\ models' = <<>>
  /\ ret' = [kind |-> "none"]
  /\ cacheRead' = FALSE
  /\ wrote' = FALSE
  /\ cacheStart' = cacheFile
  /\ IF te THEN tagsOutcome' = "skipped" /\ pc' = "decide"
           ELSE tagsOutcome' = "none" /\ pc' = "tags"
  /\ answer' = [t \in DOMAIN answer |-> NoAnswer]
  /\ outOfOrder' = FALSE
  /\ UNCHANGED <<limVars, showVars, pureVars, cacheFile, tagBound, probeAnswers>>

\* lines 98-110 and 146-149: the /api/tags request fails, is not OK, or
\* answers with something that is no {models: [...]}; discovery returns [].
TagsFail(o) ==
  /\ pc = "tags"
  /\ tagsOutcome' = o
  /\ models' = <<>>
  /\ pc' = "decide"
  /\ UNCHANGED <<limVars, showVars, pureVars, cacheFile, ollamaKey, cfgUrl, testEnv, tagList,
                 toInspect, bi, discovered, probes, ret, cacheRead, wrote, prev,
                 callsLeft, tagBound, probeAnswers, cacheStart, answer, outOfOrder>>

\* lines 106-126: the tag list arrives; an empty one ends discovery, any
\* other is capped, the limiter is created and the first batch submitted.
TagsList(l) ==
  /\ pc = "tags"
  /\ tagsOutcome' = "list"
  /\ tagList' = l
  /\ IF Len(l) = 0
       THEN /\ models' = <<>>
            /\ pc' = "decide"
            /\ UNCHANGED <<limVars, toInspect, probes>>
       ELSE LET insp == inspectList(l)
                ids == batchIds(0, insp)
                n == submitAll(<<>>, 0, OLLAMA_SHOW_CONCURRENCY, ids)
            IN  /\ toInspect' = insp
                /\ max' = OLLAMA_SHOW_CONCURRENCY
                /\ queue' = n.queue
                /\ active' = n.active
                /\ status' = [t \in TaskIds |->
                                IF t \in Range(n.run) THEN "running"
                                ELSE IF t \in Range(ids) THEN "queued" ELSE "new"]
                /\ outcome' = [t \in TaskIds |-> NoOutcome]
                /\ promise' = [t \in TaskIds |-> Pending]
                /\ submitOrder' = ids
                /\ startOrder' = n.run
                /\ probes' = [j \in 1..Len(n.run) |-> insp[n.run[j]]]
                /\ models' = <<>>
                /\ pc' = "batch"
  /\ UNCHANGED <<showVars, pureVars, cacheFile, ollamaKey, cfgUrl, testEnv, bi, discovered,
                 ret, cacheRead, wrote, prev, callsLeft, tagBound, probeAnswers, cacheStart, answer, outOfOrder>>

\* lines 126-140: the /api/show request of a running task ends, one way or
\* another, and the task returns its descriptor.
ShowResponse(t, r) ==
  /\ pc = "batch"
  /\ status[t] = "running"
  /\ status' = [status EXCEPT ![t] = "settled"]
  /\ outcome' = [outcome EXCEPT ![t] =
                   [kind |-> "ok",
                    val |-> modelDefinition(toInspect[t], queryOllamaContextWindow(r))]]
  /\ answer' = IF t \in DOMAIN answer THEN [answer EXCEPT ![t] = r] ELSE answer
  /\ outOfOrder' = (outOfOrder \/ (t \in DOMAIN answer
                                     /\ \E u \in TaskIds : u < t /\ status[u] = "running"))
  /\ UNCHANGED <<max, queue, active, promise, submitOrder, startOrder, showVars, pureVars>>
  /\ UNCHANGED <<pc, cacheFile, ollamaKey, cfgUrl, testEnv, tagsOutcome, tagList,
                 toInspect, bi, discovered, probes, models, ret, cacheRead, wrote,
                 prev, callsLeft, tagBound, probeAnswers, cacheStart>>

\* lines 124, 143-145 and 122-126: Promise.all of the current batch
\* resolves; its descriptors are pushed, then either the next batch is
\* submitted or discovery returns.
BatchDone ==
  /\ pc = "batch"
  /\ LET ids == batchIds(bi, toInspect)
         got == [j \in 1..Len(ids) |-> promise[ids[j]].val]
         i2 == bi + OLLAMA_SHOW_CONCURRENCY
     IN  /\ \A j \in 1..Len(ids) : promise[ids[j]].state = "fulfilled"
         /\ discovered' = discovered \o got
         /\ bi' = i2
         /\ IF i2 < Len(toInspect)
              THEN LET nx == batchIds(i2, toInspect)
                       n == submitAll(queue, active, max, nx)
                   IN  /\ queue' = n.queue
                       /\ active' = n.active
                       /\ status' = [t \in TaskIds |->
                                       IF t \in Range(n.run) THEN "running"
                                       ELSE IF t \in Range(nx) THEN "queued"
                                       ELSE status[t]]
                       /\ submitOrder' = submitOrder \o nx
                       /\ startOrder' = startOrder \o n.run
                       /\ probes' = probes \o [j \in 1..Len(n.run) |-> toInspect[n.run[j]]]
                       /\ UNCHANGED <<max, outcome, promise, models, pc>>
              ELSE /\ models' = discovered'
                   /\ pc' = "decide"
                   /\ DropLimiter
                   /\ UNCHANGED probes
  /\ UNCHANGED <<showVars, pureVars, cacheFile, ollamaKey, cfgUrl, testEnv, tagsOutcome, tagList,
                 toInspect, ret, cacheRead, wrote, prev, callsLeft, tagBound, probeAnswers, cacheStart, answer, outOfOrder>>

\* lines 192-198: the live provider is accepted and saved; writeFileSync
\* may fail, which is swallowed.
AcceptLive(ok) ==
  /\ pc = "decide"
  /\ acceptLive(models, ollamaKey)
  /\ LET e == liveEntry(cfgUrl, models, ollamaKey) IN
       /\ ret' = Returned(Some(e))
       /\ cacheFile' = IF ok THEN stringifyCache(e) ELSE cacheFile
  /\ wrote' = ok
  /\ pc' = "done"
  /\ UNCHANGED <<limVars, showVars, pureVars, ollamaKey, cfgUrl, testEnv, tagsOutcome, tagList,
                 toInspect, bi, discovered, probes, models, cacheRead, prev,
                 callsLeft, tagBound, probeAnswers, cacheStart, answer, outOfOrder>>

\* lines 199-205: nothing live; the cache is read.
RestoreCache ==
  /\ pc = "decide"
  /\ ~acceptLive(models, ollamaKey)
  /\ cacheRead' = TRUE
  /\ ret' = restoreFromCache(loadModelCache(cacheFile))
  /\ pc' = "done"
  /\ UNCHANGED <<limVars, showVars, pureVars, cacheFile, ollamaKey, cfgUrl, testEnv, tagsOutcome,
                 tagList, toInspect, bi, discovered, probes, models, wrote, prev,
                 callsLeft, tagBound, probeAnswers, cacheStart, answer, outOfOrder>>

InitResolver(calls, tb, files, answers, tracked) ==
  /\ FreshLimiter(0)
  /\ ShowOff
  /\ PureOff
  /\ pc = "idle"
  /\ cacheFile \in files
  /\ cacheStart = cacheFile
  /\ ollamaKey = None
  /\ cfgUrl = None
  /\ testEnv = FALSE
  /\ tagsOutcome = "none"
  /\ tagList = <<>>
  /\ toInspect = <<>>
  /\ bi = 0
  /\ discovered = <<>>
  /\ probes = <<>>
  /\ models = <<>>
  /\ ret = [kind |-> "none"]
  /\ cacheRead = FALSE
  /\ wrote = FALSE
  /\ prev = [kind |-> "none"]
  /\ callsLeft = calls
  /\ tagBound = tb
  /\ probeAnswers = answers
  /\ answer = [t \in tracked |-> NoAnswer]
  /\ outOfOrder = FALSE

Init == InitResolver(1, MaxTags, CacheFiles, ProbeResponses, {})

Next ==
  \/ \E k \in Keys : \E u \in Urls : \E te \in BOOLEAN : Resolve(k, u, te)
  \/ \E o \in {"neterr", "notok", "badshape"} : TagsFail(o)
  \/ \E l \in TagLists(tagBound) : TagsList(l)
  \/ \E t \in TaskIds : \E r \in probeAnswers : ShowResponse(t, r)
  \/ \E t \in TaskIds : Continue(t)
  \/ BatchDone
  \/ \E ok \in BOOLEAN : AcceptLive(ok)
  \/ RestoreCache

Spec == Init /\ [][Next]_vars

\* two consecutive calls, against a backend that lists at most TwoCallTags
\* models and answers every probe
InitTwo == InitResolver(2, TwoCallTags, TwoCallFiles, TwoCallResponses, {})

SpecTwo == InitTwo /\ [][Next]_vars

\* one call with no key, no configured URL and no cache file, against a
\* backend whose /api/show fails in every way; the answers are recorded
\* an /api/show answer that carries a context length of 4
GoodResponse ==
  [kind |-> "ok", info |-> Some(<< [key |-> <<"llama", ".", "context_length">>,
                                    val |-> Num(8)] >>)]
\* one whose model_info holds a string where the number should be
MalformedResponse ==
  [kind |-> "ok", info |-> Some(<< [key |-> <<"llama", ".", "context_length">>,
                                    val |-> [t |-> "str"]] >>)]
\* every way a probe fails (a timeout aborts the fetch: "neterr"), and the
\* good answer
FailingResponses == ShowFailures \cup {MalformedResponse, GoodResponse}

InitProbe ==
  InitResolver(1, OLLAMA_SHOW_MAX_MODELS, {Missing}, FailingResponses, TaskIds)

NextProbe ==
  \/ Resolve(None, None, FALSE)
  \/ \E o \in {"neterr", "notok", "badshape"} : TagsFail(o)
  \/ \E l \in TagLists(tagBound) : TagsList(l)
  \/ \E t \in TaskIds : \E r \in probeAnswers : ShowResponse(t, r)
  \/ \E t \in TaskIds : Continue(t)
  \/ BatchDone
  \/ \E ok \in BOOLEAN : AcceptLive(ok)
  \/ RestoreCache

SpecProbe == InitProbe /\ [][NextProbe]_vars

\* ===================================================== resolveOllamaApiBase
\* every configured base URL of up to MaxUrlLen characters, or none
UrlChars == {"x", "/", "v", "V", "1"}
UrlStrings == UNION { [1..n -> UrlChars] : n \in 0..MaxUrlLen }

InitUrl ==
  /\ FreshLimiter(0)
  /\ ResolverOff
  /\ ShowOff
  /\ pc = "url"
  /\ configuredBaseUrl \in {None} \cup {Some(u) : u \in UrlStrings}
  /\ apiBase = <<>>
  /\ tagName = <<>>
  /\ definition = None

\* lines 159-164: the baseUrl of the provider buildOllamaProvider builds
ApplyUrl ==
  /\ pc = "url"
  /\ pc' = "urled"
  /\ apiBase' = buildOllamaProvider(configuredBaseUrl, <<>>).baseUrl
  /\ UNCHANGED <<limVars, showVars, configuredBaseUrl, tagName, definition>>
  /\ UNCHANGED <<cacheFile, ollamaKey, cfgUrl, testEnv, tagsOutcome, tagList,
                 toInspect, bi, discovered, probes, models, ret, cacheRead, wrote,
                 prev, callsLeft, tagBound, probeAnswers, cacheStart, answer, outOfOrder>>

NextUrl == ApplyUrl

SpecUrl == InitUrl /\ [][NextUrl]_vars

\* ======================================================= the reasoning flag
\* model names: every short one over a small alphabet, and some long ones
NameChars == {"r", "R", "1", "x"}
LongNames ==
  { <<"r", "e", "a", "s", "o", "n", "i", "n", "g">>,
    <<"R", "E", "A", "S", "O", "N", "I", "N", "G">>,
    <<"x", "R", "e", "a", "s", "o", "N", "i", "n", "g", "x">>,
    <<"r", "e", "a", "s", "o", "n", "i", "n", "x">>,
    <<"r", "e", "a", "s", "o", "n", "-", "i", "n", "g">>,
    <<"R", "E", "A", "S", "O", "N">>,
    <<"l", "l", "a", "m", "a", "3">>,
    <<"d", "e", "e", "p", "-", "R", "1">>,
    <<"r", "-", "1">> }
NameStrings == LongNames \cup UNION { [1..n -> NameChars] : n \in 0..MaxNameLen }

InitName ==
  /\ FreshLimiter(0)
  /\ ResolverOff
  /\ ShowOff
  /\ pc = "name"
  /\ configuredBaseUrl = None
  /\ apiBase = <<>>
  /\ tagName \in NameStrings
  /\ definition = None

\* lines 126-140 for a model whose probe gave no context window
ApplyName ==
  /\ pc = "name"
  /\ pc' = "named"
  /\ definition' = Some(modelDefinition(tagName, None))
  /\ UNCHANGED <<limVars, showVars, configuredBaseUrl, apiBase, tagName>>
  /\ UNCHANGED <<cacheFile, ollamaKey, cfgUrl, testEnv, tagsOutcome, tagList,
                 toInspect, bi, discovered, probes, models, ret, cacheRead, wrote,
                 prev, callsLeft, tagBound, probeAnswers, cacheStart, answer, outOfOrder>>

NextName == ApplyName

SpecName == InitName /\ [][NextName]_vars

\* ===================================================================== claims
Running == {t \in TaskIds : status[t] = "running"}
Holding == {t \in TaskIds : status[t] \in {"running", "settled"}}
\* the /api/tags request failed, timed out or was not OK
Unreachable == tagsOutcome \in {"neterr", "notok"}
\* the file holds a JSON object with a provider entry under `ollama`
HoldsEntry(f) ==
  /\ f.kind = "text"
  /\ f.json.some
  /\ f.json.v.t = "object"
  /\ f.json.v.ollama.some
  /\ f.json.v.ollama.v # JsonNull
EntryOf(f) == f.json.v.ollama.v

\* C1: the number of tasks started and not yet settled never exceeds max.
C1_AtMostMaxRunning == Cardinality(Running) <= max

\* the limit bites: max tasks run, another waits, and one has completed
C1_Witness ==
  /\ pc = "client"
  /\ Cardinality(Running) = max
  /\ queue # <<>>
  /\ \E t \in TaskIds : status[t] = "done"

\* C9: tasks start in the order they were submitted: the start history is
\* a prefix of the submission history.
C9_StartInSubmitOrder ==
  /\ Len(startOrder) <= Len(submitOrder)
  /\ startOrder = SubSeq(submitOrder, 1, Len(startOrder))

\* a task that had to wait has started, after the second-started task
\* finished while the first-started one still runs
C9_Witness ==
  /\ pc = "client"
  /\ max = 2
  /\ Len(startOrder) >= 3
  /\ status[startOrder[1]] = "running"
  /\ status[startOrder[2]] = "done"

\* C10: a failure reaches only the promise of the failed task's own
\* submission (every settled promise carries its own task's outcome, and
\* no promise of an unfinished task is settled); the slot is released on
\* failure as on success (active counts exactly the tasks holding a slot);
\* and no queued task is left waiting with nothing running.
C10_FailureIsolated ==
  /\ \A t \in TaskIds :
       promise[t].state # "pending" =>
         /\ status[t] = "done"
         /\ outcome[t].val = t
         /\ promise[t].val = t
         /\ promise[t].state = (IF outcome[t].kind = "ok" THEN "fulfilled" ELSE "rejected")
  /\ \A t \in TaskIds : status[t] = "done" => promise[t].state # "pending"
  /\ active = Cardinality(Holding)
  /\ queue # <<>> => Holding # {}

\* a task failed, a task that was queued behind it then ran to success,
\* and another task is still running
C10_Witness ==
  /\ pc = "client"
  /\ \E a, b, c \in TaskIds :
       /\ promise[a].state = "rejected"
       /\ promise[b].state = "fulfilled"
       /\ \E i \in 1..Len(startOrder) : i > max /\ startOrder[i] = b
       /\ status[c] = "running"

\* C2 (as stated): backend unreachable and an `ollama` entry in the cache
\* file: the call returns exactly that entry, whatever the key.
C2_Original ==
  (pc = "done" /\ Unreachable /\ HoldsEntry(cacheStart))
    => ret = Returned(Some(EntryOf(cacheStart)))

\* C2 (amended): backend unreachable, an `ollama` entry in the cache file
\* and no API key resolved: the call returns exactly that entry, and the
\* file is left as it was.
C2_CachedEntryWhenNoKey ==
  (pc = "done" /\ Unreachable /\ HoldsEntry(cacheStart) /\ ~ollamaKey.some)
    => /\ ret = Returned(Some(EntryOf(cacheStart)))
       /\ cacheFile = cacheStart

C2_Witness ==
  /\ pc = "done"
  /\ Unreachable
  /\ HoldsEntry(cacheStart)
  /\ ~ollamaKey.some
  /\ cfgUrl.some
  /\ cacheRead

\* C3 (as stated): backend unreachable and no cache file: the returned map
\* is empty, whatever the key.
C3_Original ==
  (pc = "done" /\ Unreachable /\ cacheStart = Missing) => ret = Returned(None)

\* C3 (amended): backend unreachable, no cache file and no API key
\* resolved: the returned map is empty.
C3_EmptyWhenNoKey ==
  (pc = "done" /\ Unreachable /\ cacheStart = Missing /\ ~ollamaKey.some)
    => ret = Returned(None)

C3_Witness ==
  /\ pc = "done"
  /\ Unreachable
  /\ cacheStart = Missing
  /\ ~ollamaKey.some
  /\ cacheRead

\* C4 (as stated): a call that discovers a model overwrites the cache file
\* with {ollama: <what it returns>}, and a following call that finds the
\* backend unreachable returns that same entry, whatever its key and URL.
C4_Original ==
  /\ (pc = "done" /\ Len(models) > 0)
       => cacheFile = JsonText(JsonObject(Some(ret.ollama.v)))
  /\ (pc = "done" /\ prev.kind = "call" /\ Len(prev.models) > 0 /\ Unreachable)
       => ret = prev.ret

\* C4 (amended): the same, provided the first call's write of the cache
\* file succeeds and the second call resolves no API key.
C4_CacheThenFallback ==
  /\ (pc = "done" /\ Len(models) > 0 /\ wrote)
       => cacheFile = JsonText(JsonObject(Some(ret.ollama.v)))
  /\ (pc = "done" /\ prev.kind = "call" /\ Len(prev.models) > 0 /\ prev.wrote
        /\ Unreachable /\ ~ollamaKey.some)
       => ret = prev.ret

\* the second call fell back to what the first one, run with a key and
\* another base URL, had discovered: two models
C4_Witness ==
  /\ pc = "done"
  /\ prev.kind = "call"
  /\ Len(prev.models) >= 2
  /\ prev.models[1].id # prev.models[2].id
  /\ prev.wrote
  /\ prev.ret.ollama.v.apiKey = "sk-1"
  /\ prev.ret.ollama.v.baseUrl # resolveOllamaApiBase(cfgUrl)
  /\ Unreachable
  /\ ~ollamaKey.some

\* C5: the live provider is accepted exactly when discovery returned a
\* model or a key was resolved; the entry then returned has the discovered
\* models, api "ollama", the normalized base URL and the key (or the
\* sentinel), and the cache is not read; otherwise the cache is read and
\* nothing is written.
C5_AcceptLiveIffModelsOrKey ==
  pc = "done" =>
    IF Len(models) > 0 \/ ollamaKey.some
      THEN /\ ret = Returned(Some(
                      [baseUrl |-> resolveOllamaApiBase(cfgUrl),
                       api |-> "ollama",
                       models |-> models,
                       apiKey |-> IF ollamaKey.some THEN ollamaKey.v ELSE "ollama-local"]))
           /\ ~cacheRead
      ELSE cacheRead /\ ~wrote /\ cacheFile = cacheStart

\* accepted on the key alone: discovery found nothing
C5_Witness ==
  /\ pc = "done"
  /\ models = <<>>
  /\ ollamaKey.some
  /\ HoldsEntry(cacheStart)
  /\ ret.kind = "returned"

\* C6: the call never throws, whatever the backend and the cache file do.
C6_NeverThrows == pc = "done" => ret.kind = "returned"

\* C7: a tag list of length L leads to exactly min(L, cap) probes, those
\* of its first min(L, cap) names, and to min(L, cap) descriptors; while
\* the batches run, only names of that prefix have been probed.
C7_ProbesMinOfListAndCap ==
  LET n == Min2(Len(tagList), OLLAMA_SHOW_MAX_MODELS) IN
  /\ (pc \in {"decide", "done"} /\ tagsOutcome = "list")
       => probes = SubSeq(tagList, 1, n) /\ Len(models) = n
  /\ pc = "batch"
       => Len(probes) <= n /\ probes = SubSeq(tagList, 1, Len(probes))

\* discovery returned for a list longer than the cap
C7_Witness ==
  /\ pc = "decide"
  /\ tagsOutcome = "list"
  /\ Len(tagList) > OLLAMA_SHOW_MAX_MODELS
  /\ Len(probes) = OLLAMA_SHOW_MAX_MODELS

\* the positions of model_info whose key ends in ".context_length"
CtxKeys(mi) ==
  {i \in 1..Len(mi) : Len(mi[i].key) >= 2 /\ mi[i].key[Len(mi[i].key) - 1] = "."
                        /\ mi[i].key[Len(mi[i].key)] = "context_length"}
FirstOf(S) == CHOOSE i \in S : \A j \in S : i <= j

\* C8 (as stated): no context-length key: the default; a context-length
\* key with a finite positive value v: floor(v), from the first such key.
C8_Original ==
  (pc = "shown" /\ showResp.kind = "ok" /\ showResp.info.some) =>
    LET mi == showResp.info.v
        pos == {i \in CtxKeys(mi) : mi[i].val.t = "num" /\ mi[i].val.h > 0}
    IN  /\ CtxKeys(mi) = {} => showCtx.v.contextWindow = OLLAMA_DEFAULT_CONTEXT_WINDOW
        /\ pos # {} => showCtx.v.contextWindow = mi[FirstOf(pos)].val.h \div 2

\* C8 (amended): no context-length key: the default; a context-length key
\* with a finite value v >= 1: floor(v), from the first such key.
C8_ContextWindowFromFirstKey ==
  (pc = "shown" /\ showResp.kind = "ok" /\ showResp.info.some) =>
    LET mi == showResp.info.v
        good == {i \in CtxKeys(mi) : mi[i].val.t = "num" /\ mi[i].val.h >= 2}
    IN  /\ CtxKeys(mi) = {} => showCtx.v.contextWindow = OLLAMA_DEFAULT_CONTEXT_WINDOW
        /\ good # {} => showCtx.v.contextWindow = mi[FirstOf(good)].val.h \div 2

\* two context-length keys, the first with 0.5 and the second with 2.5
C8_Witness ==
  /\ pc = "shown"
  /\ showResp.kind = "ok"
  /\ showResp.info.some
  /\ Len(showResp.info.v) = 2
  /\ CtxKeys(showResp.info.v) = {1, 2}
  /\ showResp.info.v[1].val = Num(1)
  /\ showResp.info.v[2].val = Num(5)
  /\ showCtx.v.contextWindow = 2

\* C11: limit(max) throws at construction exactly when max < 1, and then
\* no scheduling function exists and no task was accepted; for an integer
\* max >= 1 it returns the function and the closure holds that max.
C11_ThrowsIffBelowOne ==
  /\ pc \in {"threw", "client"} => (pc = "threw" <=> max < 1)
  /\ pc = "threw" =>
       /\ submitOrder = <<>>
       /\ queue = <<>>
       /\ active = 0
       /\ \A t \in TaskIds : status[t] = "new" /\ promise[t] = Pending

\* limit(0) has thrown
C11_Witness == pc = "threw" /\ max = 0

EndsInSlash(r) == r # <<>> /\ r[Len(r)] = "/"
EndsInV1(r) ==
  Len(r) >= 3 /\ SubSeq(r, Len(r) - 2, Len(r)) \in {<<"/", "v", "1">>, <<"/", "V", "1">>}

\* C12: the baseUrl of a provider built from live discovery never ends in
\* "/" and never ends in "/v1" (any letter case).
C12_BaseUrlNormalized ==
  pc = "urled" => ~EndsInSlash(apiBase) /\ ~EndsInV1(apiBase)

\* C13: the result is the default for an absent or empty URL; otherwise it
\* is the URL cut before its trailing slashes and before one "/v1" (any
\* case) that precedes them, if there is one, the rest left as it is;
\* "x/v1/" gives "x" and "x" gives "x".
C13_StripsSlashThenV1 ==
  /\ resolveOllamaApiBase(Some(<<"x", "/", "v", "1", "/">>)) = <<"x">>
  /\ resolveOllamaApiBase(Some(<<"x">>)) = <<"x">>
  /\ pc = "urled" =>
       IF ~configuredBaseUrl.some \/ configuredBaseUrl.v = <<>>
         THEN apiBase = OLLAMA_API_BASE_URL
         ELSE LET u == configuredBaseUrl.v IN
              \E k \in 0..Len(u) : \E j \in k..Len(u) :
                /\ apiBase = SubSeq(u, 1, k)
                /\ \A i \in (j + 1)..Len(u) : u[i] = "/"
                /\ \/ j = k /\ ~EndsInSlash(apiBase) /\ ~EndsInV1(apiBase)
                   \/ j = k + 3 /\ SubSeq(u, k + 1, j) \in {<<"/", "v", "1">>, <<"/", "V", "1">>}

\* "x/V1/" was normalized to "x"
C13_Witness ==
  /\ pc = "urled"
  /\ configuredBaseUrl = Some(<<"x", "/", "V", "1", "/">>)
  /\ apiBase = <<"x">>

\* C14: a model's reasoning flag is set exactly when its id holds "r1" or
\* "reasoning", letter case ignored.
C14_ReasoningIffSubstring ==
  pc = "named" =>
    LET id == tagName
        lo == <<"r", "e", "a", "s", "o", "n", "i", "n", "g">>
        up == <<"R", "E", "A", "S", "O", "N", "I", "N", "G">>
        hasR1 == \E k \in 1..(Len(id) - 1) : id[k] \in {"r", "R"} /\ id[k + 1] = "1"
        hasReasoning ==
          \E k \in 0..(Len(id) - 9) : \A j \in 1..9 : id[k + j] \in {lo[j], up[j]}
    IN  definition.v.reasoning <=> (hasR1 \/ hasReasoning)

\* "xReasoNingx" was flagged
C14_Witness ==
  /\ pc = "named"
  /\ tagName = <<"x", "R", "e", "a", "s", "o", "N", "i", "n", "g", "x">>
  /\ definition.v.reasoning

\* the batch a probe belongs to, counted from 0
BatchOf(t) == (t - 1) \div OLLAMA_SHOW_CONCURRENCY
Started(t) == status[t] \in {"running", "settled", "done"}

\* C15: during a discovery pass the probes go out in tag-list order, in
\* batches of OLLAMA_SHOW_CONCURRENCY; a probe has started only if every
\* probe of the batches before it has completed; at most
\* OLLAMA_SHOW_CONCURRENCY requests are in flight.
C15_BatchesInOrder ==
  pc = "batch" =>
    /\ Len(submitOrder) = Min2(bi + OLLAMA_SHOW_CONCURRENCY, Len(toInspect))
    /\ \A j \in 1..Len(probes) : probes[j] = tagList[j]
    /\ \A t \in TaskIds : Started(t) =>
         \A u \in TaskIds : BatchOf(u) < BatchOf(t) => status[u] = "done"
    /\ Cardinality(Running) <= OLLAMA_SHOW_CONCURRENCY

\* a probe of the second batch is in flight
C15_Witness ==
  /\ pc = "batch"
  /\ bi = OLLAMA_SHOW_CONCURRENCY
  /\ status[bi + 1] = "running"
  /\ Len(probes) = bi + 1

\* what a model's descriptor is, given the answer its own probe got
DescriptorFor(name, a) ==
  [ id |-> name,
    name |-> name,
    reasoning |-> name = <<"R", "1">>,
    input |-> <<"text">>,
    cost |-> OLLAMA_DEFAULT_COST,
    contextWindow |-> IF a = GoodResponse THEN 4 ELSE OLLAMA_DEFAULT_CONTEXT_WINDOW,
    maxTokens |-> OLLAMA_DEFAULT_MAX_TOKENS ]

\* C16: when discovery has returned, every inspected model is in the
\* result; one whose probe failed has the default context window, and each
\* model's descriptor depends on its own probe's answer only.
C16_FailedProbeKeepsModel ==
  (pc \in {"decide", "done"} /\ tagsOutcome = "list" /\ tagList # <<>>) =>
    /\ Len(models) = Min2(Len(tagList), OLLAMA_SHOW_MAX_MODELS)
    /\ \A i \in 1..Len(models) :
         /\ answer[i] # NoAnswer
         /\ models[i] = DescriptorFor(tagList[i], answer[i])
         /\ answer[i] # GoodResponse =>
              models[i].contextWindow = OLLAMA_DEFAULT_CONTEXT_WINDOW

\* the first probe failed on the network, the second was answered
C16_Witness ==
  /\ pc = "decide"
  /\ Len(models) >= 2
  /\ answer[1] = [kind |-> "neterr"]
  /\ answer[2] = GoodResponse
  /\ models[1].contextWindow = OLLAMA_DEFAULT_CONTEXT_WINDOW
  /\ models[2].contextWindow = 4

\* C17: the descriptors collected, and those returned, are in tag-list
\* order, whatever the order the probes completed in.
C17_DescriptorsInTagOrder ==
  /\ pc = "batch" =>
       /\ Len(discovered) = bi
       /\ \A i \in 1..Len(discovered) : discovered[i].id = tagList[i]
  /\ (pc \in {"decide", "done"} /\ tagsOutcome = "list") =>
       /\ Len(models) = Min2(Len(tagList), OLLAMA_SHOW_MAX_MODELS)
       /\ \A i \in 1..Len(models) : models[i].id = tagList[i]

\* a later probe completed before an earlier one of its batch
C17_Witness ==
  /\ pc = "decide"
  /\ outOfOrder
  /\ Len(models) >= 2
  /\ models[1].id # models[2].id

\* C18 as written: the file changes only in a resolution that discovered
\* models, and a resolution without models leaves it as it was.
C18_Original ==
  pc = "done" =>
    /\ cacheFile # cacheStart => Len(models) > 0
    /\ Len(models) = 0 => cacheFile = cacheStart

\* C18: the file changes only when the live provider was accepted (a model
\* was found or a key resolved) and the write succeeded, and then holds that
\* provider; with no model and no key it is left as it was.
C18_OverwrittenOnlyOnAccept ==
  /\ pc \in {"tags", "batch", "decide"} => cacheFile = cacheStart
  /\ pc = "done" =>
       /\ cacheFile # cacheStart => wrote /\ (Len(models) > 0 \/ ollamaKey.some)
       /\ (Len(models) = 0 /\ ~ollamaKey.some) => cacheFile = cacheStart
       /\ wrote => /\ HoldsEntry(cacheFile)
                   /\ EntryOf(cacheFile).models = models
                   /\ ret = Returned(Some(EntryOf(cacheFile)))

\* a key without any model replaced a cached entry by one with no models
C18_Witness ==
  /\ pc = "done"
  /\ HoldsEntry(cacheStart)
  /\ models = <<>>
  /\ ollamaKey.some
  /\ wrote
  /\ cacheFile # cacheStart
  /\ EntryOf(cacheFile).models = <<>>

\* C19: with every started task settling, a submitted task eventually
\* starts, and the promise returned for it eventually settles with that
\* task's own result or failure.
C19_SubmittedEventuallySettles ==
  \A t \in 1..FairTasks :
    /\ (status[t] = "queued") ~> Started(t)
    /\ (status[t] # "new") ~>
         /\ promise[t].state = (IF outcome[t].kind = "ok" THEN "fulfilled" ELSE "rejected")
         /\ promise[t].val = t

\* with one slot, three tasks were submitted and all have settled, one of
\* them with a failure
C19_Witness ==
  /\ pc = "client"
  /\ max = 1
  /\ Len(submitOrder) >= 3
  /\ queue = <<>>
  /\ \A t \in Range(submitOrder) : promise[t].state # "pending"
  /\ \E t \in Range(submitOrder) : promise[t].state = "rejected"

\* C20: active is the number of tasks that have started and whose promise
\* is still pending, it lies in 0..max, the queue holds exactly the
\* submitted tasks that have not started, and a task waits only while
\* every slot is taken.
C20_ActiveCountsStarted ==
  pc = "client" =>
    /\ active = Cardinality({t \in Range(startOrder) : promise[t].state = "pending"})
    /\ active >= 0
    /\ active <= max
    /\ Range(queue) = Range(submitOrder) \ Range(startOrder)
    /\ queue # <<>> => active = max

\* two slots, both taken, a task waiting, after another task failed
C20_Witness ==
  /\ pc = "client"
  /\ max = 2
  /\ active = 2
  /\ queue # <<>>
  /\ \E t \in TaskIds : promise[t].state = "rejected"

====
